---------------------------- MODULE Spec2Model ----------------------------
(***************************************************************************)
(* A model of the Item entity of the spin-wheel widget (src/src/item.js),  *)
(* together with the three collaborators it talks to: the owning Wheel     *)
(* (items, refresh, getItemAngles), the util helpers (isObject, loadImage, *)
(* getRandomFloat) and the Defaults.item configuration.                    *)
(***************************************************************************)
EXTENDS Integers, Sequences, FiniteSets, TLC

(***************************************************************************)
(* Bounds of the model.                                                    *)
(***************************************************************************)
MaxItems == 3
MaxLoads == 2
RandSteps == 2

ItemIds == 1..MaxItems
LoadIds == 1..MaxLoads

(***************************************************************************)
(* JavaScript values.  Every value carries its tag; the payload field has  *)
(* a different name per tag, so two values of different kinds are simply   *)
(* unequal.                                                                *)
(***************************************************************************)
Undefined == [type |-> "undefined"]
Null == [type |-> "null"]
Num(n) == [type |-> "number", num |-> n]
Str(s) == [type |-> "string", str |-> s]
Obj(r) == [type |-> "object", ref |-> r]
Bag(p) == [type |-> "object", props |-> p]
Img(l) == [type |-> "object", img |-> l]

\* The typeof operator: null is reported as an object.
typeof(v) == IF v.type = "null" THEN "object" ELSE v.type

\* util.isObject as the constructor uses it.
isObject(v) == typeof(v) = "object" /\ v # Null

\* The property bag {}.
EmptyBag == Bag([f \in {} |-> Undefined])

\* props.<f> of a property bag: an absent key reads as undefined.
PropsGet(props, f) ==
  IF "props" \in DOMAIN props /\ f \in DOMAIN props.props
  THEN props.props[f] ELSE Undefined

(***************************************************************************)
(* Defaults.item, the process-wide configuration of item defaults.         *)
(***************************************************************************)
DefaultImageOpacity == 1
DefaultImageRadius == 1
DefaultImageRotation == 0
DefaultImageScale == 1
DefaultWeight == 1

Defaults_item ==
  [backgroundColor |-> Null,
   image |-> Null,
   imageOpacity |-> Num(DefaultImageOpacity),
   imageRadius |-> Num(DefaultImageRadius),
   imageRotation |-> Num(DefaultImageRotation),
   imageScale |-> Num(DefaultImageScale),
   label |-> Str(""),
   labelColor |-> Null,
   value |-> Null,
   weight |-> Num(DefaultWeight)]

FieldNames ==
  {"backgroundColor", "image", "imageOpacity", "imageRadius", "imageRotation",
   "imageScale", "label", "labelColor", "value", "weight"}

\* The object the constructor has built just before it calls init().
ProtoItem ==
  [backgroundColor |-> Null,
   image |-> Null,
   imageOpacity |-> Num(0),
   imageRadius |-> Num(0),
   imageRotation |-> Num(0),
   imageScale |-> Num(0),
   label |-> Str(""),
   labelColor |-> Null,
   value |-> Undefined,
   weight |-> Num(0),
   imageObj |-> Null]

\* An item id whose Item has not been constructed.
NoItem == [type |-> "none"]

(***************************************************************************)
(* The state.                                                              *)
(*   objs       the Item objects, by identity                              *)
(*   items      the owning Wheel's item sequence (identities)               *)
(*   loads      the image loads requested so far, in request order         *)
(*   latestReq  per Item, the load started by its most recent image        *)
(*              assignment (0: that assignment was not textual)            *)
(*   refreshes  the number of Wheel.refresh() calls the last step made     *)
(*   last       the last operation, its arguments and its outcome          *)
(***************************************************************************)
VARIABLES objs, items, loads, latestReq, refreshes, last

vars == <<objs, items, loads, latestReq, refreshes, last>>

(***************************************************************************)
(* A setter runs on a context: the Item it belongs to, the refresh calls   *)
(* made so far and the loads requested so far.                             *)
(***************************************************************************)
Ctx(self, item, ls) == [self |-> self, item |-> item, refreshes |-> 0, loads |-> ls]

\* this._wheel.refresh()
refresh(c) == [c EXCEPT !.refreshes = @ + 1]

\* util.loadImage(url, callback): a new image element whose load is pending.
loadImage(c, url) ==
  [c EXCEPT !.loads = Append(@, [owner |-> c.self, url |-> url, status |-> "pending"])]

set_backgroundColor(c, val) ==
  refresh(IF typeof(val) = "string"
          THEN [c EXCEPT !.item.backgroundColor = val]
          ELSE [c EXCEPT !.item.backgroundColor = Defaults_item.backgroundColor])

\* set image, were imageObj bound only when the load completes.
set_image_deferred(c, val) ==
  refresh(IF typeof(val) = "string"
          THEN [loadImage(c, val) EXCEPT !.item.image = val,
                                         !.item.imageObj = Null]
          ELSE [c EXCEPT !.item.image = Defaults_item.image,
                         !.item.imageObj = Null])

\* set image, were the else branch to forget this._imageObj = null.
set_image_keepObj(c, val) ==
  refresh(IF typeof(val) = "string"
          THEN [loadImage(c, val) EXCEPT !.item.image = val,
                                         !.item.imageObj = Img(Len(c.loads) + 1)]
          ELSE [c EXCEPT !.item.image = Defaults_item.image])

set_image(c, val) ==
  refresh(IF typeof(val) = "string"
          THEN [loadImage(c, val) EXCEPT !.item.image = val,
                                         !.item.imageObj = Img(Len(c.loads) + 1)]
          ELSE [c EXCEPT !.item.image = Defaults_item.image,
                         !.item.imageObj = Null])

set_imageOpacity(c, val) ==
  refresh(IF typeof(val) = "number"
          THEN [c EXCEPT !.item.imageOpacity = val]
          ELSE [c EXCEPT !.item.imageOpacity = Defaults_item.imageOpacity])

set_imageRadius(c, val) ==
  refresh(IF typeof(val) = "number"
          THEN [c EXCEPT !.item.imageRadius = val]
          ELSE [c EXCEPT !.item.imageRadius = Defaults_item.imageRadius])

set_imageRotation(c, val) ==
  refresh(IF typeof(val) = "number"
          THEN [c EXCEPT !.item.imageRotation = val]
          ELSE [c EXCEPT !.item.imageRotation = Defaults_item.imageRotation])

set_imageScale(c, val) ==
  refresh(IF typeof(val) = "number"
          THEN [c EXCEPT !.item.imageScale = val]
          ELSE [c EXCEPT !.item.imageScale = Defaults_item.imageScale])

\* set label, were a value of the wrong type to leave the label as it is.
set_label_keep(c, val) ==
  refresh(IF typeof(val) = "string"
          THEN [c EXCEPT !.item.label = val]
          ELSE c)

set_label(c, val) ==
  refresh(IF typeof(val) = "string"
          THEN [c EXCEPT !.item.label = val]
          ELSE [c EXCEPT !.item.label = Defaults_item.label])

set_labelColor(c, val) ==
  refresh(IF typeof(val) = "string"
          THEN [c EXCEPT !.item.labelColor = val]
          ELSE [c EXCEPT !.item.labelColor = Defaults_item.labelColor])

\* set value, were the test  if (val)  instead of  val !== undefined.
set_value_truthy(c, val) ==
  IF val \notin {Undefined, Null, Num(0), Str("")}
  THEN [c EXCEPT !.item.value = val]
  ELSE [c EXCEPT !.item.value = Defaults_item.value]

set_value(c, val) ==
  IF val # Undefined
  THEN [c EXCEPT !.item.value = val]
  ELSE [c EXCEPT !.item.value = Defaults_item.value]

\* set weight, were it to end with this._wheel.refresh() like its siblings.
set_weight_refresh(c, val) ==
  refresh(IF typeof(val) = "number"
          THEN [c EXCEPT !.item.weight = val]
          ELSE [c EXCEPT !.item.weight = Defaults_item.weight])

set_weight(c, val) ==
  IF typeof(val) = "number"
  THEN [c EXCEPT !.item.weight = val]
  ELSE [c EXCEPT !.item.weight = Defaults_item.weight]

\* The assignment  item.<f> = val.
assign(c, f, val) ==
  CASE f = "backgroundColor" -> set_backgroundColor(c, val)
    [] f = "image" -> set_image(c, val)
    [] f = "imageOpacity" -> set_imageOpacity(c, val)
    [] f = "imageRadius" -> set_imageRadius(c, val)
    [] f = "imageRotation" -> set_imageRotation(c, val)
    [] f = "imageScale" -> set_imageScale(c, val)
    [] f = "label" -> set_label(c, val)
    [] f = "labelColor" -> set_labelColor(c, val)
    [] f = "value" -> set_value(c, val)
    [] f = "weight" -> set_weight(c, val)

\* init(props): every property goes through its setter, in this order.
init(c, props) ==
  LET c1 == set_backgroundColor(c, PropsGet(props, "backgroundColor"))
      c2 == set_image(c1, PropsGet(props, "image"))
      c3 == set_imageOpacity(c2, PropsGet(props, "imageOpacity"))
      c4 == set_imageRadius(c3, PropsGet(props, "imageRadius"))
      c5 == set_imageRotation(c4, PropsGet(props, "imageRotation"))
      c6 == set_imageScale(c5, PropsGet(props, "imageScale"))
      c7 == set_label(c6, PropsGet(props, "label"))
      c8 == set_labelColor(c7, PropsGet(props, "labelColor"))
      c9 == set_value(c8, PropsGet(props, "value"))
  IN  set_weight(c9, PropsGet(props, "weight"))

\* The constructor, were the props check to lack  && props !== null.
constructor_noNull(self, wheel, props, ls) ==
  LET p == IF props = Undefined THEN EmptyBag ELSE props
      c == Ctx(self, ProtoItem, ls)
  IN  IF ~isObject(wheel)
      THEN [err |-> "wheel must be an instance of Wheel", ctx |-> c]
      ELSE IF ~isObject(p)
      THEN [err |-> "props must be an Object or null", ctx |-> c]
      ELSE [err |-> "none", ctx |-> init(c, p)]

\* new Item(wheel, props): the error thrown ("none": none) and the context
\* the constructor leaves.
constructor(self, wheel, props, ls) ==
  LET p == IF props = Undefined THEN EmptyBag ELSE props
      c == Ctx(self, ProtoItem, ls)
  IN  IF ~isObject(wheel)
      THEN [err |-> "wheel must be an instance of Wheel", ctx |-> c]
      ELSE IF ~isObject(p) /\ p # Null
      THEN [err |-> "props must be an Object or null", ctx |-> c]
      ELSE IF p # Null
      THEN [err |-> "none", ctx |-> init(c, p)]
      ELSE [err |-> "none", ctx |-> init(c, Bag(Defaults_item))]

(***************************************************************************)
(* Numbers that are not integers: angles are exact fractions num/den in    *)
(* lowest terms with den > 0; den = 0 stands for the result of a division  *)
(* by zero, which compares false with everything.                          *)
(***************************************************************************)
Abs(n) == IF n < 0 THEN -n ELSE n

RECURSIVE Gcd(_, _)
Gcd(a, b) == IF b = 0 THEN a ELSE Gcd(b, a % b)

Frac(n, d) ==
  IF d = 0 THEN [type |-> "number", num |-> 0, den |-> 0]
  ELSE LET g == Gcd(Abs(n), Abs(d))
           s == IF d < 0 THEN -1 ELSE 1
       IN  [type |-> "number", num |-> (s * n) \div g, den |-> (s * d) \div g]

IsFinite(a) == a.den # 0
FracAdd(a, b) == Frac(a.num * b.den + b.num * a.den, a.den * b.den)
FracSub(a, b) == Frac(a.num * b.den - b.num * a.den, a.den * b.den)
FracMul(a, b) == Frac(a.num * b.num, a.den * b.den)
FracLe(a, b) == IsFinite(a) /\ IsFinite(b) /\ a.num * b.den <= b.num * a.den
FracLt(a, b) == IsFinite(a) /\ IsFinite(b) /\ a.num * b.den < b.num * a.den

(***************************************************************************)
(* The owning Wheel.                                                       *)
(***************************************************************************)
TheWheel == Obj("wheel")

FullCircle == 360

\* The weight of the item at position k of the sequence its.
WeightAt(its, os, k) == os[its[k]].weight.num

RECURSIVE WeightSum(_, _, _)
\* The sum of the weights of the first k items.
WeightSum(its, os, k) ==
  IF k = 0 THEN 0 ELSE WeightSum(its, os, k - 1) + WeightAt(its, os, k)

\* wheel.getItemAngles(): one {start, end} per item, in sequence order, each
\* span in proportion to the item's weight over the total weight.
getItemAngles(its, os) ==
  LET total == WeightSum(its, os, Len(its))
  IN  [k \in 1..Len(its) |->
        [start |-> Frac(FullCircle * WeightSum(its, os, k - 1), total),
         end |-> Frac(FullCircle * WeightSum(its, os, k), total)]]

\* util.getRandomFloat(min, max) when the random draw is k / RandSteps.
getRandomFloat(min, max, k) ==
  FracAdd(FracMul(Frac(k, RandSteps), FracSub(max, min)), min)

(***************************************************************************)
(* The queries of an Item.  Each returns the error thrown ("none": none)   *)
(* and the value returned (undefined when it threw).                       *)
(***************************************************************************)
NotFound == "Item not found in parent Wheel"

Threw(e) == [err |-> e, val |-> Undefined]
Returned(v) == [err |-> "none", val |-> v]

\* Array.prototype.findIndex(i => i === this): zero-based, -1 when absent.
findIndex(its, self) ==
  IF \E k \in 1..Len(its) : its[k] = self
  THEN (CHOOSE k \in 1..Len(its) :
          its[k] = self /\ \A j \in 1..(k - 1) : its[j] # self) - 1
  ELSE -1

\* getIndex, were the scan to compare the items' contents, not identities.
getIndex_byEquality(self, its, os) ==
  IF \E k \in 1..Len(its) : os[its[k]] = os[self]
  THEN Returned(Num((CHOOSE k \in 1..Len(its) :
                       os[its[k]] = os[self]
                       /\ \A j \in 1..(k - 1) : os[its[j]] # os[self]) - 1))
  ELSE Threw(NotFound)

getIndex(self, its, os) ==
  LET index == findIndex(its, self)
  IN  IF index = -1 THEN Threw(NotFound) ELSE Returned(Num(index))

getCenterAngle(self, its, os) ==
  LET i == getIndex(self, its, os)
  IN  IF i.err # "none" THEN i
      ELSE LET angle == getItemAngles(its, os)[i.val.num + 1]
           IN  Returned(FracAdd(angle.start,
                                FracMul(FracSub(angle.end, angle.start), Frac(1, 2))))

getStartAngle(self, its, os) ==
  LET i == getIndex(self, its, os)
  IN  IF i.err # "none" THEN i
      ELSE Returned(getItemAngles(its, os)[i.val.num + 1].start)

\* getEndAngle, were its body the copy of getCenterAngle's.
getEndAngle_center(self, its, os) == getCenterAngle(self, its, os)

getEndAngle(self, its, os) ==
  LET i == getIndex(self, its, os)
  IN  IF i.err # "none" THEN i
      ELSE Returned(getItemAngles(its, os)[i.val.num + 1].end)

\* getRandomAngle, were the draw to start at the top of the wheel.
getRandomAngle_fromZero(self, its, os, k) ==
  LET e == getEndAngle(self, its, os)
  IN  IF e.err # "none" THEN e
      ELSE Returned(getRandomFloat(Frac(0, 1), e.val, k))

getRandomAngle(self, its, os, k) ==
  LET s == getStartAngle(self, its, os)
      e == getEndAngle(self, its, os)
  IN  IF s.err # "none" THEN s
      ELSE IF e.err # "none" THEN e
      ELSE Returned(getRandomFloat(s.val, e.val, k))

(***************************************************************************)
(* The state after start-up: no Item constructed, an empty Wheel.          *)
(***************************************************************************)
Op(op, item, field, arg, wheel, err, result) ==
  [op |-> op, item |-> item, field |-> field, arg |-> arg, wheel |-> wheel,
   err |-> err, result |-> result]

Init ==
  /\ objs = [i \in ItemIds |-> NoItem]
  /\ items = <<>>
  /\ loads = <<>>
  /\ latestReq = [i \in ItemIds |-> 0]
  /\ refreshes = 0
  /\ last = Op("none", 0, "", Undefined, Undefined, "none", Undefined)

\* The load that assigning val to image requests when ls are the loads so
\* far: the next one for a URL, none (0) for a value that is not text.
ReqOf(val, ls) == IF val.type = "string" THEN Len(ls) + 1 ELSE 0

\* The value the constructor assigns to image when called with props.
ImageArgOf(props) ==
  IF props = Null THEN Defaults_item.image ELSE PropsGet(props, "image")

(***************************************************************************)
(* new Item(wheel, props)                                                  *)
(***************************************************************************)
Construct(i, wheel, props) ==
  LET r == constructor(i, wheel, props, loads)
  IN  /\ objs[i] = NoItem
      /\ Len(r.ctx.loads) <= MaxLoads
      /\ IF r.err = "none"
         THEN /\ objs' = [objs EXCEPT ![i] = r.ctx.item]
              /\ loads' = r.ctx.loads
              /\ latestReq' = [latestReq EXCEPT ![i] = ReqOf(ImageArgOf(props), loads)]
         ELSE UNCHANGED <<objs, loads, latestReq>>
      /\ refreshes' = r.ctx.refreshes
      /\ last' = Op("construct", i, "", props, wheel, r.err, Undefined)
      /\ UNCHANGED items

(***************************************************************************)
(* item.<f> = val                                                          *)
(***************************************************************************)
SetField(i, f, val) ==
  LET c == assign(Ctx(i, objs[i], loads), f, val)
  IN  /\ objs[i] # NoItem
      /\ Len(c.loads) <= MaxLoads
      /\ objs' = [objs EXCEPT ![i] = c.item]
      /\ loads' = c.loads
      /\ latestReq' = IF f = "image"
                      THEN [latestReq EXCEPT ![i] = ReqOf(val, loads)]
                      ELSE latestReq
      /\ refreshes' = c.refreshes
      /\ last' = Op("set", i, f, val, Undefined, "none", Undefined)
      /\ UNCHANGED items

(***************************************************************************)
(* The completion of a pending image load.  A successful load runs the     *)
(* callback the setter passed to loadImage, e => this._wheel.refresh(); a  *)
(* failed load runs nothing.                                               *)
(***************************************************************************)
\* The callback, were it to adopt the image whose load completed.
onload_adopt(c, l) == refresh([c EXCEPT !.item.imageObj = Img(l)])

onload(c, l) == refresh(c)

LoadComplete(l) ==
  LET c == onload(Ctx(loads[l].owner, objs[loads[l].owner], loads), l)
  IN  /\ l \in 1..Len(loads)
      /\ loads[l].status = "pending"
      /\ objs' = [objs EXCEPT ![loads[l].owner] = c.item]
      /\ loads' = [c.loads EXCEPT ![l].status = "loaded"]
      /\ refreshes' = c.refreshes
      /\ last' = Op("loaded", loads[l].owner, "", Num(l), Undefined, "none", Undefined)
      /\ UNCHANGED <<items, latestReq>>

LoadFail(l) ==
  /\ l \in 1..Len(loads)
  /\ loads[l].status = "pending"
  /\ loads' = [loads EXCEPT ![l].status = "failed"]
  /\ refreshes' = 0
  /\ last' = Op("failed", loads[l].owner, "", Num(l), Undefined, "none", Undefined)
  /\ UNCHANGED <<objs, items, latestReq>>

(***************************************************************************)
(* The Wheel's item sequence: an Item enters at a position, an Item leaves.*)
(***************************************************************************)
InsertAt(s, p, e) == SubSeq(s, 1, p - 1) \o <<e>> \o SubSeq(s, p, Len(s))
RemoveAt(s, p) == SubSeq(s, 1, p - 1) \o SubSeq(s, p + 1, Len(s))

AddItem(i, p) ==
  /\ objs[i] # NoItem
  /\ findIndex(items, i) = -1
  /\ p \in 1..(Len(items) + 1)
  /\ items' = InsertAt(items, p, i)
  /\ refreshes' = 0
  /\ last' = Op("add", i, "", Undefined, Undefined, "none", Undefined)
  /\ UNCHANGED <<objs, loads, latestReq>>

RemoveItem(i) ==
  /\ findIndex(items, i) # -1
  /\ items' = RemoveAt(items, findIndex(items, i) + 1)
  /\ refreshes' = 0
  /\ last' = Op("remove", i, "", Undefined, Undefined, "none", Undefined)
  /\ UNCHANGED <<objs, loads, latestReq>>

(***************************************************************************)
(* The queries, called on any constructed Item.                            *)
(***************************************************************************)
Query(op, i, r) ==
  /\ objs[i] # NoItem
  /\ refreshes' = 0
  /\ last' = Op(op, i, "", Undefined, Undefined, r.err, r.val)
  /\ UNCHANGED <<objs, items, loads, latestReq>>

GetIndex(i) == Query("getIndex", i, getIndex(i, items, objs))
GetStartAngle(i) == Query("getStartAngle", i, getStartAngle(i, items, objs))
GetEndAngle(i) == Query("getEndAngle", i, getEndAngle(i, items, objs))
GetCenterAngle(i) == Query("getCenterAngle", i, getCenterAngle(i, items, objs))

GetRandomAngle(i, k) ==
  /\ objs[i] # NoItem
  /\ refreshes' = 0
  /\ last' = Op("getRandomAngle", i, "", Num(k), Undefined,
                getRandomAngle(i, items, objs, k).err,
                getRandomAngle(i, items, objs, k).val)
  /\ UNCHANGED <<objs, items, loads, latestReq>>

(***************************************************************************)
(* Inputs.                                                                 *)
(***************************************************************************)
\* Candidate values of an assignment to a typed field.
Candidates == {Undefined, Null, Num(2), Str("a")}

\* Candidate values of an assignment to value: primitives and objects.
ValueArgs == {Undefined, Null, Num(0), Str(""), Obj("o1"), EmptyBag}

\* Arguments of the constructor.
WheelArgs == {TheWheel, Undefined, Null, Num(2)}

GoodBag == Bag([label |-> Str("a"), weight |-> Num(2), value |-> Obj("o1"),
                image |-> Str("a")])
BadBag == Bag([label |-> Num(2), weight |-> Str("a"), imageScale |-> Null])

PropsArgs == {Undefined, Null, EmptyBag, GoodBag, BadBag, Num(2), Str("a")}

\* Image assignments: two URLs and two values that are not text.
ImageArgs == {Str("a"), Str("b"), Null, Num(2)}

\* Weight assignments: two positive weights and a value that is no number.
WeightArgs == {Num(1), Num(2), Undefined}

(***************************************************************************)
(* The property surface of one Item: construction and every setter.        *)
(***************************************************************************)
NextFields ==
  \/ \E w \in WheelArgs, p \in PropsArgs : Construct(1, w, p)
  \/ \E f \in FieldNames, v \in Candidates : SetField(1, f, v)

SpecFields == Init /\ [][NextFields]_vars

(***************************************************************************)
(* Image binding of one Item: assignments racing with load completions.    *)
(***************************************************************************)
NextImage ==
  \/ \E p \in {Undefined, GoodBag} : Construct(1, TheWheel, p)
  \/ \E v \in ImageArgs : SetField(1, "image", v)
  \/ \E l \in LoadIds : LoadComplete(l)
  \/ \E l \in LoadIds : LoadFail(l)

SpecImage == Init /\ [][NextImage]_vars

(***************************************************************************)
(* A Wheel of several Items: membership, weights and the queries.          *)
(***************************************************************************)
NextWheel ==
  \/ \E i \in ItemIds, w \in WeightArgs :
        Construct(i, TheWheel, Bag([weight |-> w]))
  \/ \E i \in ItemIds, w \in WeightArgs : SetField(i, "weight", w)
  \/ \E i \in ItemIds, p \in 1..MaxItems : AddItem(i, p)
  \/ \E i \in ItemIds : RemoveItem(i)
  \/ \E i \in ItemIds : GetIndex(i)
  \/ \E i \in ItemIds : GetStartAngle(i)
  \/ \E i \in ItemIds : GetEndAngle(i)
  \/ \E i \in ItemIds : GetCenterAngle(i)
  \/ \E i \in ItemIds, k \in 0..RandSteps : GetRandomAngle(i, k)

SpecWheel == Init /\ [][NextWheel]_vars

(***************************************************************************)
(* Random angles on a Wheel whose Items may carry a negative weight: the   *)
(* weight setter accepts every number.                                     *)
(***************************************************************************)
SignedWeightArgs == {Num(2), Num(-1)}

NextRandom ==
  \/ \E i \in ItemIds, w \in SignedWeightArgs :
        Construct(i, TheWheel, Bag([weight |-> w]))
  \/ \E i \in ItemIds, w \in SignedWeightArgs : SetField(i, "weight", w)
  \/ \E i \in ItemIds, p \in 1..MaxItems : AddItem(i, p)
  \/ \E i \in ItemIds : RemoveItem(i)
  \/ \E i \in ItemIds : GetStartAngle(i)
  \/ \E i \in ItemIds : GetEndAngle(i)
  \/ \E i \in ItemIds, k \in 0..RandSteps : GetRandomAngle(i, k)

SpecRandom == Init /\ [][NextRandom]_vars

(***************************************************************************)
(* The opaque value of one Item.                                           *)
(***************************************************************************)
NextValue ==
  \/ \E p \in PropsArgs : Construct(1, TheWheel, p)
  \/ \E v \in ValueArgs : SetField(1, "value", v)
  \/ \E f \in {"label", "weight"}, v \in Candidates : SetField(1, f, v)

SpecValue == Init /\ [][NextValue]_vars

(***************************************************************************)
(* Properties.                                                             *)
(***************************************************************************)
Constructed == {i \in ItemIds : objs[i] # NoItem}

\* The loads Item i requested, in request order.
LoadsOf(i) == {l \in 1..Len(loads) : loads[l].owner = i}

\* C1: once a later image assignment B was made, imageObj is the image that
\* B requested: it is never the image of a request B superseded, whatever
\* the order in which the two loads complete.
C1_ImageObjIsLatestRequest ==
  \A i \in Constructed :
    /\ latestReq[i] # 0 => objs[i].imageObj = Img(latestReq[i])
    /\ \A l \in LoadsOf(i) : l # latestReq[i] => objs[i].imageObj # Img(l)

\* C1 witness: request 1 (A) was superseded by request 2 (B), B's load
\* completed first and A's load has just completed; imageObj is B's image.
C1_Witness ==
  /\ Len(loads) >= 2
  /\ loads[1].owner = 1 /\ loads[2].owner = 1
  /\ loads[1].url # loads[2].url
  /\ loads[2].status = "loaded"
  /\ last.op = "loaded" /\ last.arg = Num(1)
  /\ latestReq[1] = 2
  /\ objs[1].imageObj = Img(2)

C3_NonTextualClears ==
  \A i \in Constructed :
    latestReq[i] = 0 =>
      objs[i].image = Defaults_item.image /\ objs[i].imageObj = Null

\* C3 witness: a URL was assigned, then a non-textual value, and the load
\* of the URL has just completed.
C3_Witness ==
  /\ 1 \in Constructed
  /\ latestReq[1] = 0
  /\ last.op = "loaded" /\ last.item = 1
  /\ objs[1].image = Defaults_item.image
  /\ objs[1].imageObj = Null

\* The type a field's setter expects.
ExpectedType(f) ==
  IF f \in {"backgroundColor", "image", "label", "labelColor"}
  THEN "string" ELSE "number"

\* The kind of a value as typeof reports it, stated from the value's tag.
KindOf(v) ==
  CASE v.type = "undefined" -> "undefined"
    [] v.type = "null" -> "object"
    [] v.type = "number" -> "number"
    [] v.type = "string" -> "string"
    [] v.type = "object" -> "object"

\* C4: an assignment to a field other than value raises no error and leaves
\* the field equal to the candidate when the candidate has the field's
\* type, and equal to the field's configured default otherwise.
C4_SetterValidatesOrDefaults ==
  (last.op = "set" /\ last.field # "value") =>
    /\ last.err = "none"
    /\ objs[last.item][last.field] =
         IF KindOf(last.arg) = ExpectedType(last.field)
         THEN last.arg ELSE Defaults_item[last.field]

\* C4 witness: a number has just been assigned to the label of an Item whose
\* weight is not the default; the label is the default label.
C4_Witness ==
  /\ last.op = "set" /\ last.field = "label" /\ last.arg = Num(2)
  /\ objs[1].label = Defaults_item.label
  /\ objs[1].weight = Num(2)

\* C5: a setter calls the Wheel's refresh() before it returns exactly when
\* the field is neither value nor weight, also when it resets the field to
\* its default.
C5_RefreshIffVisual ==
  last.op = "set" =>
    IF last.field \in {"value", "weight"} THEN refreshes = 0 ELSE refreshes = 1

\* C5 witness: an assignment that reset imageScale to its default has
\* signalled refresh.
C5_Witness ==
  /\ last.op = "set" /\ last.field = "imageScale" /\ last.arg = Str("a")
  /\ objs[1].imageScale = Defaults_item.imageScale
  /\ refreshes = 1

\* The Items absent from the Wheel's sequence.
Present(i) == \E k \in 1..Len(items) : items[k] = i

QueryOps ==
  {"getIndex", "getStartAngle", "getEndAngle", "getCenterAngle", "getRandomAngle"}

\* C6: a query on an Item that is absent from the Wheel's sequence fails
\* with NotFound and returns nothing; on an Item that is present it does
\* not fail, and getIndex returns the zero-based position holding it.
C6_AbsentItemNotFound ==
  last.op \in QueryOps =>
    IF Present(last.item)
    THEN /\ last.err = "none"
         /\ last.op = "getIndex" =>
              /\ last.result.type = "number"
              /\ last.result.num \in 0..(Len(items) - 1)
              /\ items[last.result.num + 1] = last.item
    ELSE last.err = NotFound /\ last.result = Undefined

\* C6 witness: an Item that is not in the sequence, which holds another
\* Item of the same weight, has just been asked for its center angle.
C6_Witness ==
  /\ last.op = "getCenterAngle"
  /\ ~Present(last.item)
  /\ last.err = NotFound
  /\ Len(items) >= 1
  /\ objs[items[1]].weight = objs[last.item].weight

RECURSIVE SumOver(_, _)
\* The sum of w over the set S of positions.
SumOver(w, S) ==
  IF S = {} THEN 0
  ELSE LET k == CHOOSE x \in S : TRUE IN w[k] + SumOver(w, S \ {k})

\* The current weights, in sequence order.
Weights == [k \in 1..Len(items) |-> objs[items[k]].weight.num]

TotalWeight == SumOver(Weights, 1..Len(items))

C8_ValueKeptAsIs ==
  [][(last'.op = "set" /\ last'.field = "value" /\ last'.arg # Undefined) =>
       /\ objs'[last'.item].value = last'.arg
       /\ \A f \in (DOMAIN ProtoItem) \ {"value"} :
            objs'[last'.item][f] = objs[last'.item][f]
       /\ \A i \in ItemIds \ {last'.item} : objs'[i] = objs[i]
       /\ UNCHANGED <<items, loads, latestReq>>]_vars

\* C8 witness: an object has just been assigned to the value of an Item
\* whose label is not the default; value holds that object.
C8_Witness ==
  /\ last.op = "set" /\ last.field = "value" /\ last.arg = Obj("o1")
  /\ objs[1].value = Obj("o1")
  /\ objs[1].label = Str("a")

C10_ConstructorValidates ==
  last.op = "construct" =>
    LET badWheel == last.wheel.type # "object"
        badProps == last.arg.type \notin {"object", "null", "undefined"}
    IN  /\ last.err # "none" <=> (badWheel \/ badProps)
        /\ last.err # "none" => refreshes = 0 /\ objs[last.item] = NoItem
        /\ (last.err = "none" /\ last.arg \in {Undefined, Null}) =>
             /\ \A f \in FieldNames : objs[last.item][f] = Defaults_item[f]
             /\ objs[last.item].imageObj # Null
                  <=> Defaults_item.image.type = "string"

\* C10 witness: a construction with a Wheel and a number for a property bag
\* has just failed.
C10_Witness ==
  /\ last.op = "construct"
  /\ last.wheel = TheWheel /\ last.arg = Num(2)
  /\ last.err = "props must be an Object or null"
  /\ refreshes = 0


Next == NextValue \/ NextFields \/ NextImage \/ NextWheel \/ NextRandom

Spec == Init /\ [][Next]_vars

=============================================================================
